---- MODULE Spec2Model ----
(***************************************************************************)
(* A model of templates/example-interface.py (hello.py), the rcForge       *)
(* example greeting utility: main() builds an argparse parser, parses the  *)
(* command-line tokens, and runs one of three branches (summary, version,  *)
(* greet).                                                                 *)
(*                                                                         *)
(* A string is a sequence of one-character strings, so that argparse's     *)
(* prefix rules, str.format and str.upper are computed character by        *)
(* character.                                                              *)
(***************************************************************************)
EXTENDS Integers, Sequences, FiniteSets, TLC

VARIABLES
    pc,        \* the line of main the process is at, "exited" once it has ended
    argv,      \* sys.argv[1:], the command-line tokens
    outcome,   \* how parse_args ended: "none" (not run yet), "ok", "error", "help"
    args,      \* the Namespace parse_args returned
    greeting,  \* the local variable greeting of main
    stdout,    \* the lines written to standard output
    stderr,    \* what was written to standard error: "", "usage" or "traceback"
    status,    \* the exit status of the process, NoStatus while it runs
    exc,       \* the exception that ended main, NoException if none
    trace,     \* the branches of main entered so far, in order
    runs,      \* how many processes ran before this one
    prev       \* a remembered earlier run: its tokens, output and status

vars == <<pc, argv, outcome, args, greeting, stdout, stderr, status, exc, trace, runs, prev>>

----------------------------------------------------------------------------
(* Bounds of the model *)

\* the longest token list drawn from Tokens
MaxTokens == 3
\* the most template pieces a drawn --format value is built from
MaxPieces == 3
\* the longest token list of a run in the repeated-run specification
MaxRunTokens == 1
\* how many processes the repeated-run specification starts after the first
MaxRuns == 2

----------------------------------------------------------------------------
(* Strings *)

StartsWith(s, p) == Len(p) <= Len(s) /\ SubSeq(s, 1, Len(p)) = p

Tail2(s, i) == SubSeq(s, i, Len(s))

\* the least index of character c in s, 0 if there is none
IndexOf(s, c) ==
    IF \E i \in 1..Len(s) : s[i] = c
    THEN CHOOSE i \in 1..Len(s) : s[i] = c /\ \A j \in 1..(i - 1) : s[j] # c
    ELSE 0

Range(s) == {s[i] : i \in 1..Len(s)}

Digits == {"0","1","2","3","4","5","6","7","8","9"}

AsciiLower == <<"a","b","c","d","e","f","g","h","i","j","k","l","m","n","o","p","q","r","s","t","u","v","w","x","y","z">>
AsciiUpper == <<"A","B","C","D","E","F","G","H","I","J","K","L","M","N","O","P","Q","R","S","T","U","V","W","X","Y","Z">>

----------------------------------------------------------------------------
(* The texts of the program *)

SUMMARY_TEXT == <<"D","i","s","p","l","a","y","s"," ","a"," ","c","u","s","t","o","m","i","z","a","b","l","e"," ","g","r","e","e","t","i","n","g"," ","m","e","s","s","a","g","e"," ","(","P","y","t","h","o","n"," ","v","e","r","s","i","o","n",")">>

VERSION_TEXT == <<"h","e","l","l","o"," ","-"," ","r","c","F","o","r","g","e"," ","U","t","i","l","i","t","y"," ","v","0",".","4",".","1">>

DefaultName == <<"F","r","i","e","n","d">>

DefaultFormat == <<"H","e","l","l","o",","," ","{","n","a","m","e","}","!">>

\* argparse's help message: several lines, of which the model keeps the
\* first word of the usage line and the blank line after it
HELP_TEXT == << <<"u","s","a","g","e",":">>, <<>> >>

----------------------------------------------------------------------------
(* str.format(name=...) *)

NoException == "none"

Rendered(text) == [exc |-> NoException, text |-> text]
Raised(e) == [exc |-> e, text |-> <<>>]

\* the text of a literal or field followed by the rendering of the rest:
\* the first error met from the left is the one raised
Then(text, rest) ==
    IF rest.exc # NoException THEN rest ELSE Rendered(text \o rest.text)

\* the index of the "}" closing a replacement field whose name starts at i;
\* 0 when the string ends first or a "{" occurs inside the field name
RECURSIVE FieldEnd(_, _)
FieldEnd(s, i) ==
    IF i > Len(s) THEN 0
    ELSE IF s[i] = "}" THEN i
    ELSE IF s[i] = "{" THEN 0
    ELSE FieldEnd(s, i + 1)

\* GetField had the name been passed as a positional argument,
\* format(args.name): {} and {0} are the name and {name} is a KeyError
GetField_positional(field, name) ==
    IF field = <<>> \/ field = <<"0">> THEN Rendered(name)
    ELSE IF Range(field) \subseteq Digits THEN Raised("IndexError")
    ELSE Raised("KeyError")

\* the value of the replacement field called field: the only keyword
\* argument is name and there are no positional arguments
GetField(field, name) ==
    IF field = <<"n","a","m","e">> THEN Rendered(name)
    ELSE IF Range(field) \subseteq Digits THEN Raised("IndexError")
    ELSE Raised("KeyError")

RECURSIVE FormatFrom(_, _, _)
FormatFrom(s, i, name) ==
    IF i > Len(s) THEN Rendered(<<>>)
    ELSE IF s[i] = "{" THEN
        IF i = Len(s) THEN Raised("ValueError")
        ELSE IF s[i + 1] = "{" THEN Then(<<"{">>, FormatFrom(s, i + 2, name))
        ELSE LET e == FieldEnd(s, i + 1) IN
             IF e = 0 THEN Raised("ValueError")
             ELSE LET v == GetField(SubSeq(s, i + 1, e - 1), name) IN
                  IF v.exc # NoException THEN v
                  ELSE Then(v.text, FormatFrom(s, e + 1, name))
    ELSE IF s[i] = "}" THEN
        IF i < Len(s) /\ s[i + 1] = "}" THEN Then(<<"}">>, FormatFrom(s, i + 2, name))
        ELSE Raised("ValueError")
    ELSE Then(<<s[i]>>, FormatFrom(s, i + 1, name))

\* args.format.format(name=args.name)
Format(format, name) == FormatFrom(format, 1, name)

----------------------------------------------------------------------------
(* str.upper() *)

UpperChar(c) ==
    IF c = "ß" THEN <<"S","S">>
    ELSE IF IndexOf(AsciiLower, c) # 0 THEN <<AsciiUpper[IndexOf(AsciiLower, c)]>>
    ELSE <<c>>

RECURSIVE Upper(_)
Upper(s) == IF s = <<>> THEN <<>> ELSE UpperChar(Head(s)) \o Upper(Tail(s))

----------------------------------------------------------------------------
(* The parser that main builds: argparse.ArgumentParser with the optional   *)
(* positional name, --format (one argument), the flags --uppercase/-u,      *)
(* --summary and --version, and the -h/--help that argparse adds itself.    *)

OptionStrings == {
    [opt |-> <<"-","h">>, dest |-> "help"],
    [opt |-> <<"-","-","h","e","l","p">>, dest |-> "help"],
    [opt |-> <<"-","-","f","o","r","m","a","t">>, dest |-> "format"],
    [opt |-> <<"-","-","u","p","p","e","r","c","a","s","e">>, dest |-> "uppercase"],
    [opt |-> <<"-","u">>, dest |-> "uppercase"],
    [opt |-> <<"-","-","s","u","m","m","a","r","y">>, dest |-> "summary"],
    [opt |-> <<"-","-","v","e","r","s","i","o","n">>, dest |-> "version"] }

\* the number of arguments an option takes: --format one, the others none
NArgs(dest) == IF dest = "format" THEN 1 ELSE 0

\* Defaults had the program kept state from one process to the next: once
\* a process has run, uppercase stays on
Defaults_kept ==
    [name |-> DefaultName, format |-> DefaultFormat, format_type |-> "str",
     uppercase |-> runs > 0, summary |-> FALSE, version |-> FALSE]

\* the Namespace built from the defaults of the arguments
Defaults == [name |-> DefaultName, format |-> DefaultFormat, format_type |-> "str",
             uppercase |-> FALSE, summary |-> FALSE, version |-> FALSE]

Positional == [kind |-> "A", dest |-> "", opt |-> <<>>, explicit |-> <<>>, has_explicit |-> FALSE]
Separator == [kind |-> "-", dest |-> "", opt |-> <<>>, explicit |-> <<>>, has_explicit |-> FALSE]
Ambiguous == [kind |-> "ambiguous", dest |-> "", opt |-> <<>>, explicit |-> <<>>, has_explicit |-> FALSE]
Unknown(arg) == [kind |-> "O", dest |-> "unknown", opt |-> arg, explicit |-> <<>>, has_explicit |-> FALSE]
Optional(o, explicit, has) ==
    [kind |-> "O", dest |-> o.dest, opt |-> o.opt, explicit |-> explicit, has_explicit |-> has]

\* the part of an argument before its first "=", and the part after it
BeforeEq(arg) == SubSeq(arg, 1, IndexOf(arg, "=") - 1)
AfterEq(arg) == Tail2(arg, IndexOf(arg, "=") + 1)

\* ArgumentParser._get_option_tuples: the options an argument may abbreviate
GetOptionTuples(arg) ==
    IF arg[2] = "-" THEN
        LET has == IndexOf(arg, "=") # 0
            prefix == IF has THEN BeforeEq(arg) ELSE arg
            explicit == IF has THEN AfterEq(arg) ELSE <<>>
        IN {Optional(o, explicit, has) : o \in {x \in OptionStrings : StartsWith(x.opt, prefix)}}
    ELSE
        {Optional(o, Tail2(arg, 3), TRUE) : o \in {x \in OptionStrings : x.opt = SubSeq(arg, 1, 2)}}
        \cup {Optional(o, <<>>, FALSE) :
                o \in {x \in OptionStrings : x.opt # SubSeq(arg, 1, 2) /\ StartsWith(x.opt, arg)}}

\* the parser's _negative_number_matcher: -digits, or -digits.digits with
\* at least one digit after the point
NegativeNumberLike(arg) ==
    /\ Len(arg) >= 2
    /\ arg[1] = "-"
    /\ LET body == Tail(arg)
           dot == IndexOf(body, ".")
       IN \/ Range(body) \subseteq Digits
          \/ /\ dot # 0
             /\ dot < Len(body)
             /\ Range(SubSeq(body, 1, dot - 1)) \subseteq Digits
             /\ Range(Tail2(body, dot + 1)) \subseteq Digits

\* ArgumentParser._parse_optional: whether one argument is an option string
ParseOptional(arg) ==
    IF arg = <<>> THEN Positional
    ELSE IF arg[1] # "-" THEN Positional
    ELSE IF \E o \in OptionStrings : o.opt = arg
        THEN Optional(CHOOSE o \in OptionStrings : o.opt = arg, <<>>, FALSE)
    ELSE IF Len(arg) = 1 THEN Positional
    ELSE IF IndexOf(arg, "=") # 0 /\ \E o \in OptionStrings : o.opt = BeforeEq(arg)
        THEN Optional(CHOOSE o \in OptionStrings : o.opt = BeforeEq(arg), AfterEq(arg), TRUE)
    ELSE LET tuples == GetOptionTuples(arg) IN
        IF Cardinality(tuples) > 1 THEN Ambiguous
        ELSE IF Cardinality(tuples) = 1 THEN CHOOSE t \in tuples : TRUE
        ELSE IF NegativeNumberLike(arg) THEN Positional
        ELSE IF " " \in Range(arg) THEN Positional
        ELSE Unknown(arg)

\* the arg_strings_pattern of _parse_known_args, with the option tuple of
\* every option string: all arguments after the first "--" are positional
ArgStringsPattern(arg_strings) ==
    [i \in 1..Len(arg_strings) |->
        IF \E j \in 1..(i - 1) : arg_strings[j] = <<"-","-">> THEN Positional
        ELSE IF arg_strings[i] = <<"-","-">> THEN Separator
        ELSE ParseOptional(arg_strings[i])]

\* how many entries of the pattern, from index i on, are of the given kind
\* in a row
RECURSIVE Leading(_, _, _)
Leading(pattern, i, kind) ==
    IF i > Len(pattern) \/ pattern[i].kind # kind THEN 0
    ELSE 1 + Leading(pattern, i + 1, kind)

\* _match_arguments_partial for the positional name (nargs "?"): the length
\* of the match of (-*A?-*) at index start of the pattern
MatchName(pattern, start) ==
    LET d1 == Leading(pattern, start, "-")
        a == IF start + d1 <= Len(pattern) /\ pattern[start + d1].kind = "A" THEN 1 ELSE 0
        d2 == Leading(pattern, start + d1 + a, "-")
    IN d1 + a + d2

\* list.remove("--"): the list without its first "--"
RemoveSeparator(arg_strings) ==
    LET i == IndexOf(arg_strings, <<"-","-">>) IN
    IF i = 0 THEN arg_strings
    ELSE SubSeq(arg_strings, 1, i - 1) \o Tail2(arg_strings, i + 1)

\* TakeName had name been declared without default="Friend": no argument
\* leaves the name empty
TakeName_noDefault(ns, arg_strings) ==
    LET values == RemoveSeparator(arg_strings) IN
    IF values = <<>> THEN [ns EXCEPT !.name = <<>>]
    ELSE [ns EXCEPT !.name = values[1]]

\* take_action for the positional name: _get_values strips the first "--",
\* no argument left gives the default, one argument is the value (the
\* match of (-*A?-*) never leaves more than one)
TakeName(ns, arg_strings) ==
    LET values == RemoveSeparator(arg_strings) IN
    IF values = <<>> THEN [ns EXCEPT !.name = DefaultName]
    ELSE [ns EXCEPT !.name = values[1]]

\* take_action for an option: the flags store True; --format stores its
\* one argument, but _get_values strips a "--" and then stores the empty
\* list that is left
TakeOption(ns, dest, arg_strings) ==
    IF dest = "format" THEN
        LET values == RemoveSeparator(arg_strings) IN
        IF Len(values) = 1 THEN [ns EXCEPT !.format = values[1], !.format_type = "str"]
        ELSE [ns EXCEPT !.format = <<>>, !.format_type = "list"]
    ELSE IF dest = "uppercase" THEN [ns EXCEPT !.uppercase = TRUE]
    ELSE IF dest = "summary" THEN [ns EXCEPT !.summary = TRUE]
    ELSE IF dest = "version" THEN [ns EXCEPT !.version = TRUE]
    ELSE ns

\* consume_positionals: st.pending says that name is still to be parsed
ConsumePositionals(arg_strings, pattern, start, st) ==
    IF ~st.pending THEN [stop |-> start, st |-> st]
    ELSE LET count == MatchName(pattern, start) IN
         [stop |-> start + count,
          st |-> [st EXCEPT !.pending = FALSE,
                            !.ns = TakeName(st.ns, SubSeq(arg_strings, start, start + count - 1))]]

\* the loop of consume_optional over one argument string: the actions to
\* take, in order, each with its arguments, or an ArgumentError. A
\* single-dash flag followed by more characters (-uu, -uh) is read as
\* several single-dash options.
RECURSIVE ActionTuples(_, _, _, _)
ActionTuples(arg_strings, pattern, start, tuple) ==
    IF tuple.has_explicit THEN
        IF NArgs(tuple.dest) = 1
        THEN [error |-> FALSE, stop |-> start + 1,
              actions |-> <<[dest |-> tuple.dest, args |-> <<tuple.explicit>>]>>]
        ELSE IF tuple.opt[2] # "-" /\ tuple.explicit # <<>> THEN
            LET option_string == <<"-", tuple.explicit[1]>>
                rest == Tail(tuple.explicit)
            IN IF \E o \in OptionStrings : o.opt = option_string
               THEN LET more == ActionTuples(arg_strings, pattern, start,
                                    Optional(CHOOSE o \in OptionStrings : o.opt = option_string,
                                             rest, rest # <<>>))
                    IN [more EXCEPT !.actions = <<[dest |-> tuple.dest, args |-> <<>>]>> \o @]
               ELSE [error |-> TRUE, stop |-> start, actions |-> <<>>]
        ELSE [error |-> TRUE, stop |-> start, actions |-> <<>>]
    ELSE IF NArgs(tuple.dest) = 1 THEN
        \* _match_argument of (A) against the rest of the pattern
        IF start + 1 <= Len(pattern) /\ pattern[start + 1].kind = "A"
        THEN [error |-> FALSE, stop |-> start + 2,
              actions |-> <<[dest |-> tuple.dest, args |-> <<arg_strings[start + 1]>>]>>]
        ELSE [error |-> TRUE, stop |-> start, actions |-> <<>>]
    ELSE [error |-> FALSE, stop |-> start + 1,
          actions |-> <<[dest |-> tuple.dest, args |-> <<>>]>>]

\* take_action on each action tuple in turn; the help action prints the
\* help message and exits the process at once
RECURSIVE TakeActions(_, _)
TakeActions(st, actions) ==
    IF actions = <<>> THEN st
    ELSE IF Head(actions).dest = "help" THEN [st EXCEPT !.outcome = "help"]
    ELSE TakeActions([st EXCEPT !.ns = TakeOption(@, Head(actions).dest, Head(actions).args)],
                     Tail(actions))

\* consume_optional
ConsumeOptional(arg_strings, pattern, start, st) ==
    IF pattern[start].dest = "unknown"
    THEN [stop |-> start + 1, st |-> [st EXCEPT !.extras = Append(@, arg_strings[start])]]
    ELSE LET t == ActionTuples(arg_strings, pattern, start, pattern[start]) IN
         IF t.error THEN [stop |-> start, st |-> [st EXCEPT !.outcome = "error"]]
         ELSE [stop |-> t.stop, st |-> TakeActions(st, t.actions)]

\* the loop of _parse_known_args: positionals and optionals are consumed
\* alternately up to the last option string, then the positionals after it;
\* what is left over goes to extras
RECURSIVE ConsumeFrom(_, _, _, _)
ConsumeFrom(arg_strings, pattern, start, st) ==
    LET later == {i \in start..Len(pattern) : pattern[i].kind = "O"} IN
    IF st.outcome # "ok" THEN st
    ELSE IF later = {} THEN
        LET p == ConsumePositionals(arg_strings, pattern, start, st) IN
        [p.st EXCEPT !.extras = @ \o Tail2(arg_strings, p.stop)]
    ELSE LET next == CHOOSE i \in later : \A j \in later : i <= j
             p == IF start # next THEN ConsumePositionals(arg_strings, pattern, start, st)
                  ELSE [stop |-> start, st |-> st]
         IN IF p.stop > start THEN ConsumeFrom(arg_strings, pattern, p.stop, p.st)
            ELSE LET skipped == [p.st EXCEPT !.extras = @ \o SubSeq(arg_strings, start, next - 1)]
                     o == ConsumeOptional(arg_strings, pattern, next, skipped)
                 IN ConsumeFrom(arg_strings, pattern, o.stop, o.st)

\* ParseArgs had main called parse_known_args: the arguments left over are
\* not an error
ParseArgs_known(arg_strings) ==
    LET pattern == ArgStringsPattern(arg_strings)
        st0 == [ns |-> Defaults, pending |-> TRUE, extras |-> <<>>, outcome |-> "ok"]
    IN IF \E i \in 1..Len(pattern) : pattern[i].kind = "ambiguous"
       THEN [outcome |-> "error", ns |-> Defaults]
       ELSE LET st == ConsumeFrom(arg_strings, pattern, 1, st0) IN
            IF st.outcome # "ok" THEN [outcome |-> st.outcome, ns |-> Defaults]
            ELSE [outcome |-> "ok", ns |-> st.ns]

\* parser.parse_args(): the Namespace, or the error exit (an ambiguous
\* abbreviation, an ArgumentError, unrecognized arguments), or the exit of
\* the help action
ParseArgs(arg_strings) ==
    LET pattern == ArgStringsPattern(arg_strings)
        st0 == [ns |-> Defaults, pending |-> TRUE, extras |-> <<>>, outcome |-> "ok"]
    IN IF \E i \in 1..Len(pattern) : pattern[i].kind = "ambiguous"
       THEN [outcome |-> "error", ns |-> Defaults]
       ELSE LET st == ConsumeFrom(arg_strings, pattern, 1, st0) IN
            IF st.outcome # "ok" THEN [outcome |-> st.outcome, ns |-> Defaults]
            ELSE IF st.extras # <<>> THEN [outcome |-> "error", ns |-> Defaults]
            ELSE [outcome |-> "ok", ns |-> st.ns]

----------------------------------------------------------------------------
(* main() *)

\* exit statuses: main returns 0 to sys.exit; argparse's error() exits
\* with 2; an uncaught exception ends the interpreter with 1
EXIT_SUCCESS == 0
EXIT_USAGE == 2
EXIT_EXCEPTION == 1
\* the process has not exited yet
NoStatus == -1

\* SummarySet had version been tested before summary
SummarySet_afterVersion(a) == a.summary /\ ~a.version

\* if args.summary:
SummarySet(a) == a.summary

\* if args.version:
VersionSet(a) == a.version

\* if args.uppercase: greeting = greeting.upper()
Cased(a, g) == IF a.uppercase THEN Upper(g) ELSE g

\* VersionLine had the uppercase flag been applied to it as well
VersionLine_cased(a) == Cased(a, VERSION_TEXT)

\* the line the version branch prints: an f-string without fields
VersionLine(a) == VERSION_TEXT

\* Return had the return 0 of the summary branch been left out: main goes
\* on to the test of version
Return_missing(branch) ==
    IF branch = "summary" THEN [pc |-> "line23", status |-> NoStatus]
    ELSE [pc |-> "exited", status |-> EXIT_SUCCESS]

\* return 0, which ends every branch: main is left and sys.exit(0) ends
\* the process
Return(branch) == [pc |-> "exited", status |-> EXIT_SUCCESS]

\* Greeting had the result been formatted once more, so that brace text
\* brought in by the name is expanded too
Greeting_twice(a) ==
    IF a.format_type # "str" THEN Raised("AttributeError")
    ELSE LET r == Format(a.format, a.name) IN
         IF r.exc # NoException THEN r ELSE Format(r.text, a.name)

\* Greeting had the template been uppercased before the substitution
Greeting_upperFirst(a) ==
    IF a.format_type # "str" THEN Raised("AttributeError")
    ELSE Format(Cased(a, a.format), a.name)

\* Greeting had the name been appended to a template without placeholder
Greeting_nameAppended(a) ==
    IF a.format_type # "str" THEN Raised("AttributeError")
    ELSE LET r == Format(a.format, a.name) IN
         IF r.exc # NoException \/ \E i \in 1..Len(a.format) : a.format[i] = "{" THEN r
         ELSE Rendered(r.text \o a.name)

\* args.format.format(name=args.name); a list has no method format
Greeting(a) ==
    IF a.format_type # "str" THEN Raised("AttributeError")
    ELSE Format(a.format, a.name)

\* print(line)
Write(out, line) == Append(out, line)

\* line 17: args = parser.parse_args()
ParseArguments ==
    /\ pc = "line17"
    /\ LET r == ParseArgs(argv) IN
        /\ outcome' = r.outcome
        /\ args' = r.ns
        /\ pc' = IF r.outcome = "ok" THEN "line20" ELSE "exited"
        /\ stdout' = IF r.outcome = "help" THEN HELP_TEXT ELSE stdout
        /\ stderr' = IF r.outcome = "error" THEN "usage" ELSE stderr
        /\ status' = IF r.outcome = "help" THEN EXIT_SUCCESS
                     ELSE IF r.outcome = "error" THEN EXIT_USAGE
                     ELSE status
    /\ UNCHANGED <<argv, greeting, exc, trace, runs, prev>>

\* lines 20-22: if args.summary: print(...); return 0
TestSummary ==
    /\ pc = "line20"
    /\ IF SummarySet(args)
       THEN /\ trace' = Append(trace, "summary")
            /\ stdout' = Write(stdout, SUMMARY_TEXT)
            /\ pc' = Return("summary").pc
            /\ status' = Return("summary").status
       ELSE /\ pc' = "line23"
            /\ UNCHANGED <<trace, stdout, status>>
    /\ UNCHANGED <<argv, outcome, args, greeting, stderr, exc, runs, prev>>

\* lines 23-25: if args.version: print(...); return 0
TestVersion ==
    /\ pc = "line23"
    /\ IF VersionSet(args)
       THEN /\ trace' = Append(trace, "version")
            /\ stdout' = Write(stdout, VersionLine(args))
            /\ pc' = Return("version").pc
            /\ status' = Return("version").status
       ELSE /\ pc' = "line28"
            /\ UNCHANGED <<trace, stdout, status>>
    /\ UNCHANGED <<argv, outcome, args, greeting, stderr, exc, runs, prev>>

\* line 28: greeting = args.format.format(name=args.name). An exception it
\* raises is caught nowhere: the interpreter prints the traceback to
\* standard error and exits with 1
FormatGreeting ==
    /\ pc = "line28"
    /\ trace' = Append(trace, "greet")
    /\ LET r == Greeting(args) IN
        /\ exc' = r.exc
        /\ greeting' = r.text
        /\ pc' = IF r.exc = NoException THEN "line29" ELSE "exited"
        /\ stderr' = IF r.exc = NoException THEN stderr ELSE "traceback"
        /\ status' = IF r.exc = NoException THEN status ELSE EXIT_EXCEPTION
    /\ UNCHANGED <<argv, outcome, args, stdout, runs, prev>>

\* lines 29-30: if args.uppercase: greeting = greeting.upper()
UppercaseGreeting ==
    /\ pc = "line29"
    /\ greeting' = Cased(args, greeting)
    /\ pc' = "line32"
    /\ UNCHANGED <<argv, outcome, args, stdout, stderr, status, exc, trace, runs, prev>>

\* lines 32-33: print(greeting); return 0
PrintGreeting ==
    /\ pc = "line32"
    /\ stdout' = Write(stdout, greeting)
    /\ pc' = Return("greet").pc
    /\ status' = Return("greet").status
    /\ UNCHANGED <<argv, outcome, args, greeting, stderr, exc, trace, runs, prev>>

----------------------------------------------------------------------------
(* The command lines the model runs *)

\* all sequences of at most n elements of S
SeqsUpTo(S, n) == UNION {[1..k -> S] : k \in 0..n}

RECURSIVE Concat(_)
Concat(ss) == IF ss = <<>> THEN <<>> ELSE Head(ss) \o Concat(Tail(ss))

Tokens == {
    <<"-","-","s","u","m","m","a","r","y">>,
    <<"-","-","v","e","r","s","i","o","n">>,
    <<"-","-","u","p","p","e","r","c","a","s","e">>,
    <<"-","u">>,
    <<"-","-","f","o","r","m","a","t">>,
    <<"-","-","f","o","r","m","a","t","=","-","-">>,
    <<"-","-","b","o","g","u","s">>,
    <<"-","-","s","u","m">>,
    <<"-","h">>,
    <<"-","-">>,
    <<"W","o","r","l","d">>,
    <<"{","x","}">> }

\* the pieces --format values are built from
Pieces == { <<"{","n","a","m","e","}">>, <<"{">>, <<"}">>, <<"x">>, <<"H","i"," ">> }

Templates == {Concat(ps) : ps \in SeqsUpTo(Pieces, MaxPieces)}

Names == { <<"W","o","r","l","d">>, <<"ß","{","n","a","m","e","}">> }

\* --format=TEMPLATE, alone or with a name, -u, or both
TemplateLists ==
    {<<<<"-","-","f","o","r","m","a","t","=">> \o t>> \o rest :
        t \in Templates,
        rest \in {<<>>, <<<<"-","u">>>>} \cup {<<n>> : n \in Names}
                 \cup {<<n, <<"-","u">>>> : n \in Names}}

RunTokens == {
    <<"-","-","s","u","m","m","a","r","y">>,
    <<"-","-","v","e","r","s","i","o","n">>,
    <<"-","u">>,
    <<"W","o","r","l","d">>,
    <<"-","-","f","o","r","m","a","t","=","{","x","}">>,
    <<"-","-","b","o","g","u","s">> }

NoRun == [valid |-> FALSE, run |-> 0, argv |-> <<>>, stdout |-> <<>>, status |-> NoStatus]

\* a process that has just been started with the tokens a
Started(a) ==
    /\ pc = "line17"
    /\ argv = a
    /\ outcome = "none"
    /\ args = Defaults
    /\ greeting = <<>>
    /\ stdout = <<>>
    /\ stderr = ""
    /\ status = NoStatus
    /\ exc = NoException
    /\ trace = <<>>

Init ==
    /\ runs = 0
    /\ prev = NoRun
    /\ \E a \in SeqsUpTo(Tokens, MaxTokens) \cup TemplateLists : Started(a)

Next ==
    \/ ParseArguments
    \/ TestSummary
    \/ TestVersion
    \/ FormatGreeting
    \/ UppercaseGreeting
    \/ PrintGreeting

Spec == Init /\ [][Next]_vars

\* the process has exited and another one is started: nothing of the old
\* process is left; the observer may remember what the old one did
NextRun ==
    /\ pc = "exited"
    /\ runs < MaxRuns
    /\ runs' = runs + 1
    /\ prev' \in {prev, [valid |-> TRUE, run |-> runs, argv |-> argv,
                         stdout |-> stdout, status |-> status]}
    /\ \E a \in SeqsUpTo(RunTokens, MaxRunTokens) :
        /\ pc' = "line17"
        /\ argv' = a
        /\ outcome' = "none"
        /\ args' = Defaults
        /\ greeting' = <<>>
        /\ stdout' = <<>>
        /\ stderr' = ""
        /\ status' = NoStatus
        /\ exc' = NoException
        /\ trace' = <<>>

InitRuns ==
    /\ runs = 0
    /\ prev = NoRun
    /\ \E a \in SeqsUpTo(RunTokens, MaxRunTokens) : Started(a)

NextRuns == Next \/ NextRun

SpecRuns == InitRuns /\ [][NextRuns]_vars

----------------------------------------------------------------------------
(* Properties *)

Exited == pc = "exited"

\* parse_args returned a Namespace: the token list was accepted
Accepted == outcome = "ok"

PLACEHOLDER == <<"{","n","a","m","e","}">>

\* s with every occurrence of old, found from the left and not overlapping,
\* replaced by new (old is not empty)
RECURSIVE ReplaceAll(_, _, _)
ReplaceAll(s, old, new) ==
    IF s = <<>> THEN <<>>
    ELSE IF StartsWith(s, old) THEN new \o ReplaceAll(Tail2(s, Len(old) + 1), old, new)
    ELSE <<Head(s)>> \o ReplaceAll(Tail(s), old, new)

Occurs(old, s) == \E i \in 1..Len(s) : StartsWith(Tail2(s, i), old)

NoBraces(s) == Range(s) \cap {"{", "}"} = {}

\* a template whose braces all belong to {name} placeholders
SimpleTemplate(s) == NoBraces(ReplaceAll(s, PLACEHOLDER, <<>>))

C2_SummaryShortCircuits ==
    (Exited /\ Accepted /\ args.summary) =>
        /\ stdout = <<SUMMARY_TEXT>>
        /\ status = EXIT_SUCCESS
        /\ trace = <<"summary">>
        /\ exc = NoException
        /\ greeting = <<>>

\* summary together with version and a format the greet branch could not
\* render
C2_Witness ==
    /\ Exited /\ Accepted
    /\ args.summary /\ args.version
    /\ Greeting(args).exc # NoException
    /\ stdout = <<SUMMARY_TEXT>>

\* C3: whenever summary is not set and version is set, the output is
\* exactly the version text and the status is 0, whatever name, format and
\* uppercase are: no greeting is formatted and uppercase does not alter the
\* version text.
C3_VersionShortCircuits ==
    (Exited /\ Accepted /\ ~args.summary /\ args.version) =>
        /\ stdout = <<VERSION_TEXT>>
        /\ status = EXIT_SUCCESS
        /\ trace = <<"version">>
        /\ exc = NoException
        /\ greeting = <<>>

\* version with uppercase and a name given
C3_Witness ==
    /\ Exited /\ Accepted
    /\ ~args.summary /\ args.version /\ args.uppercase
    /\ args.name # DefaultName
    /\ stdout = <<VERSION_TEXT>>

\* C4 as stated: on the greet branch the greeting logic cannot fail: for
\* every accepted format and name, main prints a greeting and returns 0
\* and no formatting error is raised.
C4_GreetNeverFails ==
    (Exited /\ Accepted /\ trace = <<"greet">>) =>
        /\ exc = NoException
        /\ Len(stdout) = 1
        /\ status = EXIT_SUCCESS

\* C4 as amended: on the greet branch, for every format string whose braces
\* all belong to {name} placeholders and for every name, main prints a
\* greeting and returns 0 and no formatting error is raised.
C4_GreetOfSimpleTemplateNeverFails ==
    (Exited /\ Accepted /\ trace = <<"greet">>
        /\ args.format_type = "str" /\ SimpleTemplate(args.format)) =>
        /\ exc = NoException
        /\ Len(stdout) = 1
        /\ status = EXIT_SUCCESS

\* a greeting rendered from a template with a placeholder and a name that
\* holds brace text itself
C4_Witness ==
    /\ Exited /\ Accepted /\ trace = <<"greet">>
    /\ args.format_type = "str" /\ SimpleTemplate(args.format)
    /\ Occurs(PLACEHOLDER, args.format)
    /\ ~NoBraces(args.name)
    /\ Len(stdout) = 1

\* C5 as stated: on the greet branch with uppercase not set, the printed
\* greeting is the format string with every occurrence of {name} replaced
\* by the name, in a single pass.
C5_GreetingIsReplacement ==
    (Exited /\ Accepted /\ trace = <<"greet">> /\ ~args.uppercase
        /\ args.format_type = "str" /\ stdout # <<>>) =>
        stdout = <<ReplaceAll(args.format, PLACEHOLDER, args.name)>>

\* C5 as amended: on the greet branch with uppercase not set, for a format
\* string whose braces all belong to {name} placeholders, the printed
\* greeting is the format string with every occurrence of {name} replaced
\* by the name, in a single pass: brace text in the name is inserted as it
\* is and not expanded again.
C5_SimpleTemplateIsReplacement ==
    (Exited /\ Accepted /\ trace = <<"greet">> /\ ~args.uppercase
        /\ args.format_type = "str" /\ SimpleTemplate(args.format)) =>
        stdout = <<ReplaceAll(args.format, PLACEHOLDER, args.name)>>

\* a template with a placeholder printed with a name that holds {name}
C5_Witness ==
    /\ Exited /\ Accepted /\ trace = <<"greet">> /\ ~args.uppercase
    /\ args.format_type = "str" /\ SimpleTemplate(args.format)
    /\ Occurs(PLACEHOLDER, args.format)
    /\ Occurs(PLACEHOLDER, args.name)
    /\ Len(stdout) = 1

\* C6: on the greet branch, with uppercase set the printed line is the
\* uppercase conversion of the whole string obtained by substitution in the
\* format as given (template text and name alike); with uppercase not set
\* that string is printed unchanged. The flag has no effect on whether the
\* format renders.
C6_UppercaseAfterSubstitution ==
    (Exited /\ Accepted /\ trace = <<"greet">> /\ args.format_type = "str") =>
        LET r == Format(args.format, args.name) IN
        /\ exc = r.exc
        /\ r.exc = NoException =>
            /\ stdout = <<IF args.uppercase THEN Upper(r.text) ELSE r.text>>
            /\ status = EXIT_SUCCESS

\* an uppercased greeting whose template and name both held lowercase
\* letters
C6_Witness ==
    /\ Exited /\ Accepted /\ trace = <<"greet">> /\ args.uppercase
    /\ Occurs(PLACEHOLDER, args.format)
    /\ Occurs(<<"i">>, args.format)
    /\ Occurs(<<"ß">>, args.name)
    /\ Len(stdout) = 1
    /\ Occurs(<<"S","S">>, stdout[1])

\* C8 as stated: when the format string holds no {name} placeholder, the
\* greet branch prints the format string as it is (subject only to the
\* uppercase flag) and the name has no effect.
C8_NoPlaceholderIsLiteral ==
    (Exited /\ Accepted /\ trace = <<"greet">>
        /\ args.format_type = "str" /\ ~Occurs(PLACEHOLDER, args.format)) =>
        stdout = <<Cased(args, args.format)>>

\* C8 as amended: when the format string holds no brace at all, the greet
\* branch prints the format string as it is (subject only to the uppercase
\* flag) and the name has no effect.
C8_NoBraceIsLiteral ==
    (Exited /\ Accepted /\ trace = <<"greet">>
        /\ args.format_type = "str" /\ NoBraces(args.format)) =>
        /\ stdout = <<IF args.uppercase THEN Upper(args.format) ELSE args.format>>
        /\ status = EXIT_SUCCESS

\* a format without braces printed while a name was given
C8_Witness ==
    /\ Exited /\ Accepted /\ trace = <<"greet">>
    /\ args.format_type = "str" /\ NoBraces(args.format)
    /\ args.format # <<>>
    /\ args.name # DefaultName
    /\ stdout = <<args.format>>

\* Token lists that are invalid by their looks alone.  The tokens before
\* the first "--" are where options are looked for.
OptionRegion(a) ==
    IF IndexOf(a, <<"-","-">>) = 0 THEN 1..Len(a) ELSE 1..(IndexOf(a, <<"-","-">>) - 1)

\* a token written as a long option that no long option of the parser
\* starts with
LooksUnknown(t) ==
    /\ Len(t) > 2
    /\ StartsWith(t, <<"-","-">>)
    /\ " " \notin Range(t)
    /\ LET prefix == IF IndexOf(t, "=") # 0 THEN BeforeEq(t) ELSE t IN
       \A o \in OptionStrings : ~StartsWith(o.opt, prefix)

UnknownFlag(a) == \E i \in OptionRegion(a) : LooksUnknown(a[i])

\* --format is the last token, so that no value follows it
FormatWithoutValue(a) ==
    /\ a # <<>>
    /\ Len(a) \in OptionRegion(a)
    /\ a[Len(a)] = <<"-","-","f","o","r","m","a","t">>

\* a token that is not written as an option and cannot be the value of a
\* --format before it
PlainAt(a, i) ==
    /\ a[i] = <<>> \/ a[i][1] # "-"
    /\ i = 1 \/ ~StartsWith(a[i - 1], <<"-","-","f">>)

TooManyPositionals(a) == \E i, j \in 1..Len(a) : i < j /\ PlainAt(a, i) /\ PlainAt(a, j)

Invalid(a) == UnknownFlag(a) \/ FormatWithoutValue(a) \/ TooManyPositionals(a)

\* a token that may ask for the help message: -h, an abbreviation of
\* --help, or a group of single-dash flags with h in it
AsksHelp(a) ==
    \E i \in 1..Len(a) :
        \/ StartsWith(a[i], <<"-","-","h">>)
        \/ Len(a[i]) >= 2 /\ a[i][1] = "-" /\ a[i][2] # "-" /\ "h" \in Range(a[i])

\* C7 as stated: when the token list is invalid (an unknown flag, --format
\* without a value, more than one positional argument), the run ends with
\* a status other than 0, writes nothing to standard output and executes
\* none of the branches.
C7_InvalidExitsNonZero ==
    (Exited /\ Invalid(argv)) =>
        /\ status # EXIT_SUCCESS
        /\ stdout = <<>>
        /\ trace = <<>>

\* C7 as amended: when the token list is invalid and holds no token asking
\* for help, the parser rejects it; and whenever the parser rejects a token
\* list the run ends with status 2, writes nothing to standard output and
\* executes none of the branches, --summary or --version among the tokens
\* or not.
C7_RejectedExitsWithUsage ==
    Exited =>
        /\ (Invalid(argv) /\ ~AsksHelp(argv)) => outcome = "error"
        /\ outcome = "error" =>
            /\ status = EXIT_USAGE
            /\ stdout = <<>>
            /\ trace = <<>>
            /\ stderr = "usage"

\* an unknown flag next to --summary, rejected
C7_Witness ==
    /\ Exited
    /\ UnknownFlag(argv)
    /\ \E i \in 1..Len(argv) : argv[i] = <<"-","-","s","u","m","m","a","r","y">>
    /\ outcome = "error"
    /\ status = EXIT_USAGE

IsFlag(t) ==
    \E o \in OptionStrings : o.opt = t /\ o.dest \in {"uppercase", "summary", "version"}

\* C10: omitted arguments take their defaults independently of each other:
\* without a positional argument the name is Friend, without --format the
\* template is "Hello, {name}!", and uppercase, summary and version are
\* false unless their flag is there; a run without tokens prints
\* "Hello, Friend!" and a run with only a name N prints "Hello, N!".
C10_DefaultsAreIndependent ==
    Accepted =>
        /\ (\A i \in 1..Len(argv) : IsFlag(argv[i])
                \/ StartsWith(argv[i], <<"-","-","f","o","r","m","a","t","=">>))
            => args.name = DefaultName
        /\ (\A i \in 1..Len(argv) : ~StartsWith(argv[i], <<"-","-","f">>))
            => (args.format = DefaultFormat /\ args.format_type = "str")
        /\ (\A i \in 1..Len(argv) : ~StartsWith(argv[i], <<"-","u">>)
                /\ ~StartsWith(argv[i], <<"-","-","u">>))
            => ~args.uppercase
        /\ (\A i \in 1..Len(argv) : ~StartsWith(argv[i], <<"-","-","s">>)) => ~args.summary
        /\ (\A i \in 1..Len(argv) : ~StartsWith(argv[i], <<"-","-","v">>)) => ~args.version
        /\ (Exited /\ argv = <<>>) =>
            (stdout = << <<"H","e","l","l","o",","," ","F","r","i","e","n","d","!">> >>
                /\ status = EXIT_SUCCESS)
        /\ (Exited /\ Len(argv) = 1 /\ argv[1] # <<>> /\ argv[1][1] # "-") =>
            (stdout = << <<"H","e","l","l","o",","," ">> \o argv[1] \o <<"!">> >>
                /\ status = EXIT_SUCCESS)

\* a run with only a name, and that name holds brace text
C10_Witness ==
    /\ Exited /\ Accepted
    /\ Len(argv) = 1
    /\ argv[1][1] = "{"
    /\ args.format = DefaultFormat
    /\ args.name = argv[1]
    /\ Len(stdout) = 1

====
